---- MODULE Spec2Model ----
(***************************************************************************)
(* Model of the reconciliation loop of tonic-dynamic-channel.              *)
(*                                                                         *)
(* The sources hold two revisions of AutoBalancedChannel::with_interval:   *)
(*   src/src/lib.rs              one register (status), a failed send      *)
(*                               publishes Stopped and returns;            *)
(*   src/src/dynamic_channel.rs  two registers (status, endpoint count),   *)
(*                               results of send are dropped and the loop  *)
(*                               returns when sender.is_closed().          *)
(* The variable revision says which of the two a behaviour runs.           *)
(***************************************************************************)
EXTENDS Integers, Sequences, FiniteSets, TLC

\* ---------------------------------------------------------------- bounds
NumIps   == 2     \* number of distinct IP addresses the resolver can name
MaxAddrs == 2     \* longest address list the resolver returns
MaxTicks == 3     \* resolver calls made by one loop instance

\* ------------------------------------------------------------ value sets
IpAddr == 1 .. NumIps

LibRs == "lib.rs"
DynamicChannelRs == "dynamic_channel.rs"
Revisions == {LibRs, DynamicChannelRs}

\* std::io::Error values the resolver can fail with
IoErrors ==
    { [repr |-> "Custom", kind |-> "Other", error |-> "Error"],
      [repr |-> "Simple", kind |-> "NotFound", error |-> ""] }

NoError == [repr |-> "None", kind |-> "", error |-> ""]

AddrLists == UNION { [1 .. n -> IpAddr] : n \in 0 .. MaxAddrs }

\* io::Result<Vec<SocketAddr>> as the resolver function returns it
DnsOk(addrs) == [ok |-> TRUE, addrs |-> addrs, err |-> NoError]
DnsErr(e) == [ok |-> FALSE, addrs |-> <<>>, err |-> e]
DnsResults == { DnsOk(a) : a \in AddrLists } \cup { DnsErr(e) : e \in IoErrors }

\* what is remembered of a resolver result: the set of the addresses, how
\* many addresses the list had, the error
Outcome(r) == [ok |-> r.ok,
               set |-> { r.addrs[i] : i \in 1 .. Len(r.addrs) },
               len |-> Len(r.addrs),
               err |-> r.err]

NoOutcome == [ok |-> FALSE, set |-> {}, len |-> 0, err |-> NoError]

\* ----------------------------------------------------------------- state
VARIABLES
    revision,        \* which with_interval runs: lib.rs or dynamic_channel.rs
    pc,              \* position of the background task
    old_endpoints,   \* HashSet<IpAddr> known to the loop
    new_endpoints,   \* HashSet<IpAddr> collected in the current tick
    iter,            \* keys the running for loop has still to visit
    status,          \* watch::channel::<Status> value
    status_version,  \* number of sends on status_setter
    endpoints_count, \* watch::channel::<usize> value
    count_version,   \* number of sends on endpoints_count_setter
    sink_closed,     \* receiver of the balance channel dropped
    sink_full,       \* the buffer of the balance channel has no free slot
    url,             \* the Url handed to EndpointTemplate::new
    template,        \* what EndpointTemplate::new returned, with later setters
    endpoint,        \* what the last EndpointTemplate::build returned
    sent,            \* the sender.send(..) calls of the current tick, in order
    key_events,      \* per key, the Insert and Remove sent for it so far
    handle_alive,    \* the AutoBalancedChannel has not been dropped
    ticks,           \* resolver calls made so far
    closed_calls,    \* resolver calls made with the sink already closed
    outcome,         \* result of resolve_domain in the current tick
    prev_resolved,   \* whether the tick before resolved, and to which set
    known_before,    \* old_endpoints when the current tick resolved
    h_pc,            \* position of the reader inside get_health()
    h_count,         \* count the running get_health() call has read
    h_seen,          \* the register pairs held since the running get_health began
    ret              \* what the last call on the handle returned, NoRet
                     \* while get_health() runs

vars == << revision, pc, old_endpoints, new_endpoints, iter, sink_full,
          url, template, endpoint,
           status, status_version, endpoints_count, count_version,
           sink_closed, sent, key_events, handle_alive, ticks, closed_calls,
           outcome,
           prev_resolved, known_before, h_pc, h_count, h_seen, ret >>

taskVars == << pc, old_endpoints, new_endpoints, iter, status, status_version,
               endpoints_count, count_version, sent, key_events, ticks,
               closed_calls,
               outcome, prev_resolved, known_before >>
readerVars == << h_pc, h_count, ret >>
templateVars == << url, template, endpoint >>
envVars == << revision, sink_closed, sink_full, handle_alive >>

\* ---------------------------------------------------------------- Status
StatusOk == [tag |-> "Ok", details |-> ""]
StatusStopped == [tag |-> "Stopped", details |-> ""]

\* format!("{e:?}") of an io::Error
DebugFmt(e) ==
    IF e.repr = "Custom"
    THEN "Custom { kind: " \o e.kind \o ", error: " \o e.error \o " }"
    ELSE "Kind(" \o e.kind \o ")"

\* format!("{e}") of an io::Error: Display instead of Debug
DisplayFmt(e) == IF e.repr = "Custom" THEN e.error ELSE "entity not found"

dns_resolution_error_Display(e) == [tag |-> "DnsResolutionError", details |-> DisplayFmt(e)]

dns_resolution_error(e) == [tag |-> "DnsResolutionError", details |-> DebugFmt(e)]

is_dns_resolution_error(s) == s.tag = "DnsResolutionError"

NoRet == [call |-> "None", status |-> StatusOk, health |-> "None"]

\* ---------------------------------------------------------------- helpers
\* ip_addrs.collect() into a HashSet
Collect(addrs) == { addrs[i] : i \in 1 .. Len(addrs) }

\* a difference that forgets to take b away
Difference_KeepsAll(a, b) == a

\* HashSet::difference
Difference(a, b) == a \ b

\* resolve_domain(domain): what one call can answer, whatever the domain
resolve_domain == DnsResults

InsertEv(ip, accepted) == [op |-> "Insert", key |-> ip, ok |-> accepted]
RemoveEv(ip, accepted) == [op |-> "Remove", key |-> ip, ok |-> accepted]

\* sender.send(change).await: Err exactly when the receiver is gone
SendOk == ~sink_closed

\* sender.send(change).await returns: at once with Err when the receiver is
\* gone, else as soon as the buffer has a free slot
SendReady == sink_closed \/ ~sink_full


\* ------------------------------------------------- endpoint_template.rs
\* the longest text Uri::from_str accepts
UriMaxLen == 65534

\* url::Host as Url::host() reports it, with the text Url::as_str() shows
NoHost == [kind |-> "None", text |-> ""]
Domain(name) == [kind |-> "Domain", text |-> name]
Ipv4(text) == [kind |-> "Ipv4", text |-> text]
Ipv6(text) == [kind |-> "Ipv6", text |-> "[" \o text \o "]"]

\* the std::net::IpAddr behind a key: odd keys are V4, even keys V6
IpHost(ip) ==
    IF ip % 2 = 1
    THEN Ipv4("203.0.113." \o ToString(ip))
    ELSE Ipv6("2001:db8::" \o ToString(ip))

\* bytes by which the path of a Url is longer than its path text
Pads == {0, UriMaxLen - 28, UriMaxLen - 20}

\* the Urls handed to EndpointTemplate::new; a Url that cannot be a base has
\* no host
Urls ==
    { [scheme |-> "http", host |-> h, port |-> ":50051", path |-> p, pad |-> n,
       cannot_be_a_base |-> FALSE] :
         h \in {Domain("localhost"), Domain("example.com"),
                Ipv4("127.0.0.1"), Ipv6("::1")},
         p \in {"/", "/foo"},
         n \in Pads }
    \cup { [scheme |-> "mailto", host |-> NoHost, port |-> "",
            path |-> "admin@example.com", pad |-> 0, cannot_be_a_base |-> TRUE],
           [scheme |-> "unix", host |-> NoHost, port |-> "",
            path |-> "/run/foo.socket", pad |-> 0, cannot_be_a_base |-> FALSE] }

\* Url::parse("http://localhost:50051")
LocalhostUrl ==
    [scheme |-> "http", host |-> Domain("localhost"), port |-> ":50051",
     path |-> "/", pad |-> 0, cannot_be_a_base |-> FALSE]

\* url.as_str(), without the padding of the path
as_str(u) ==
    u.scheme \o ":"
        \o (IF u.host.kind = "None" THEN "" ELSE "//" \o u.host.text \o u.port)
        \o u.path

\* url.as_str().len()
StrLen(u) == Len(as_str(u)) + u.pad

\* Uri::from_str(url.as_str()): an Err for a text longer than UriMaxLen
Uri(u) ==
    [scheme |-> u.scheme, authority |-> u.host.text \o u.port,
     path |-> u.path, pad |-> u.pad]
UriErr == [scheme |-> "", authority |-> "", path |-> "InvalidUri", pad |-> 0]
Uri_from_str(u) ==
    IF StrLen(u) > UriMaxLen
    THEN [is_err |-> TRUE, uri |-> UriErr]
    ELSE [is_err |-> FALSE, uri |-> Uri(u)]

\* Option<Duration> of the timeout setter
NoDuration == 0
Durations == {30}

\* Result<EndpointTemplate, Error>, and the value before the call
NotCalled == [tag |-> "NotCalled", error |-> "None", url |-> LocalhostUrl,
              timeout |-> NoDuration]
TemplateErr(e) == [tag |-> "Err", error |-> e, url |-> LocalhostUrl,
                   timeout |-> NoDuration]
TemplateOk(u) == [tag |-> "Ok", error |-> "None", url |-> u,
                  timeout |-> NoDuration]

\* a constructor that looks at cannot_be_a_base() before the host
new_BaseFirst(u) ==
    IF u.cannot_be_a_base THEN TemplateErr("Inconvertible")
    ELSE IF u.host.kind = "None" THEN TemplateErr("HostMissing")
    ELSE IF u.host.kind # "Domain" THEN TemplateErr("AlreadyIpAddress")
    ELSE IF Uri_from_str(u).is_err THEN TemplateErr("Inconvertible")
    ELSE TemplateOk(u)

\* EndpointTemplate::new(url)
new(u) ==
    IF u.host.kind = "None" THEN TemplateErr("HostMissing")
    ELSE IF u.host.kind # "Domain" THEN TemplateErr("AlreadyIpAddress")
    ELSE IF u.cannot_be_a_base THEN TemplateErr("Inconvertible")
    ELSE IF Uri_from_str(u).is_err THEN TemplateErr("Inconvertible")
    ELSE TemplateOk(u)

\* url.set_ip_host(ip_addr): Err(()) for a Url that cannot be a base
set_ip_host(u, ip) ==
    IF u.cannot_be_a_base
    THEN [is_err |-> TRUE, url |-> u]
    ELSE [is_err |-> FALSE, url |-> [u EXCEPT !.host = IpHost(ip)]]

\* what a build returned: an Endpoint, or the panic of an unwrap
NoEndpoint == [tag |-> "None", ip |-> 0, uri |-> UriErr, timeout |-> NoDuration]
Panicked(ip) == [tag |-> "Panic", ip |-> ip, uri |-> UriErr,
                 timeout |-> NoDuration]
Endpoint(ip, uri, t) == [tag |-> "Endpoint", ip |-> ip, uri |-> uri,
                         timeout |-> t]

\* build_uri: both results are unwrapped
build_uri(t, ip) ==
    LET set == set_ip_host(t.url, ip)
        parsed == Uri_from_str(set.url)
    IN  IF set.is_err \/ parsed.is_err
        THEN [panic |-> TRUE, uri |-> UriErr]
        ELSE [panic |-> FALSE, uri |-> parsed.uri]

\* EndpointTemplate::build(ip_address)
build(t, ip) ==
    LET built == build_uri(t, ip)
    IN  IF built.panic THEN Panicked(ip)
        ELSE Endpoint(ip, built.uri, t.timeout)

\* ------------------------------------------------------------------ Init
\* a construction that creates the endpoint-count register holding 1
Init_CountOne ==
    /\ revision \in Revisions
    /\ pc = "resolve"
    /\ old_endpoints = {}
    /\ new_endpoints = {}
    /\ iter = {}
    /\ status = StatusOk
    /\ status_version = 0
    /\ endpoints_count = 1
    /\ count_version = 0
    /\ sink_closed = FALSE
    /\ sink_full = FALSE
    /\ url = LocalhostUrl
    /\ template = new(url)
    /\ endpoint = NoEndpoint
    /\ sent = <<>>
    /\ key_events = [k \in IpAddr |-> <<>>]
    /\ handle_alive = TRUE
    /\ ticks = 0
    /\ closed_calls = 0
    /\ outcome = NoOutcome
    /\ prev_resolved = [ok |-> FALSE, set |-> {}]
    /\ known_before = {}
    /\ h_pc = "idle"
    /\ h_count = 0
    /\ h_seen = {}
    /\ ret = NoRet

\* with_interval up to tokio::spawn: both registers created, task spawned
Init ==
    /\ revision \in Revisions
    /\ pc = "resolve"
    /\ old_endpoints = {}
    /\ new_endpoints = {}
    /\ iter = {}
    /\ status = StatusOk
    /\ status_version = 0
    /\ endpoints_count = 0
    /\ count_version = 0
    /\ sink_closed = FALSE
    /\ sink_full = FALSE
    /\ url = LocalhostUrl
    /\ template = new(url)
    /\ endpoint = NoEndpoint
    /\ sent = <<>>
    /\ key_events = [k \in IpAddr |-> <<>>]
    /\ handle_alive = TRUE
    /\ ticks = 0
    /\ closed_calls = 0
    /\ outcome = NoOutcome
    /\ prev_resolved = [ok |-> FALSE, set |-> {}]
    /\ known_before = {}
    /\ h_pc = "idle"
    /\ h_count = 0
    /\ h_seen = {}
    /\ ret = NoRet

\* bookkeeping of a resolver call: one more tick, its result remembered
BeginTick(r) ==
    /\ ticks' = ticks + 1
    /\ closed_calls' = IF sink_closed THEN closed_calls + 1 ELSE closed_calls
    /\ prev_resolved' = [ok |-> outcome.ok, set |-> outcome.set]
    /\ outcome' = Outcome(r)
    /\ known_before' = old_endpoints
    /\ sent' = <<>>

SameTick == UNCHANGED << ticks, closed_calls, outcome, prev_resolved, known_before >>

\* one sender.send(change).await, with the result the caller gets
Send(ev) ==
    /\ SendReady
    /\ sent' = Append(sent, ev)
    /\ key_events' = [key_events EXCEPT ![ev.key] = Append(@, ev.op)]
    /\ IF ev.ok THEN sink_full' \in BOOLEAN ELSE sink_full' = sink_full
    /\ UNCHANGED << revision, sink_closed, handle_alive >>

\* what get_health can tell of a pair of register values
Snapshot(count, st) ==
    [empty |-> count = 0, error |-> is_dns_resolution_error(st)]

\* while a get_health is between its two reads, every pair of values the
\* two registers hold together is remembered
Observe ==
    h_seen' = IF h_pc = "status"
              THEN h_seen \cup {Snapshot(endpoints_count', status')}
              ELSE h_seen

\* status_setter.send(s)
SetStatus(s) ==
    /\ status' = s
    /\ status_version' = status_version + 1

\* a count that is only published when it is not 0
SetCount_SkipZero(n) ==
    IF n = 0
    THEN UNCHANGED << endpoints_count, count_version >>
    ELSE /\ endpoints_count' = n
         /\ count_version' = count_version + 1

\* endpoints_count_setter.send(n)
SetCount(n) ==
    /\ endpoints_count' = n
    /\ count_version' = count_version + 1

\* ------------------------------------------- dynamic_channel.rs, the loop
\* if sender.is_closed() { return; }
DynExitClosed ==
    /\ revision = DynamicChannelRs
    /\ pc = "resolve"
    /\ sink_closed
    /\ pc' = "done"
    /\ UNCHANGED << old_endpoints, new_endpoints, iter, status, status_version,
                    endpoints_count, count_version, sent, key_events >>
    /\ SameTick
    /\ UNCHANGED << envVars, readerVars >>
    /\ UNCHANGED templateVars
    /\ Observe

\* an Ok arm that forgets status_setter.send(Status::Ok)
DynResolveOk_NoStatus ==
    /\ revision = DynamicChannelRs
    /\ pc = "resolve"
    /\ ~sink_closed
    /\ ticks < MaxTicks
    /\ \E r \in resolve_domain :
         /\ r.ok
         /\ BeginTick(r)
         /\ new_endpoints' = Collect(r.addrs)
         /\ iter' = Difference(new_endpoints', old_endpoints)
    /\ pc' = "insert"
    /\ UNCHANGED << status, status_version >>
    /\ UNCHANGED << old_endpoints, endpoints_count, count_version, key_events >>
    /\ UNCHANGED << envVars, readerVars >>
    /\ UNCHANGED templateVars
    /\ Observe

\* Ok(ip_addrs) => status Ok, collect, start the loop over the additions
DynResolveOk ==
    /\ revision = DynamicChannelRs
    /\ pc = "resolve"
    /\ ~sink_closed
    /\ ticks < MaxTicks
    /\ \E r \in resolve_domain :
         /\ r.ok
         /\ BeginTick(r)
         /\ SetStatus(StatusOk)
         /\ new_endpoints' = Collect(r.addrs)
         /\ iter' = Difference(new_endpoints', old_endpoints)
    /\ pc' = "insert"
    /\ UNCHANGED << old_endpoints, endpoints_count, count_version, key_events >>
    /\ UNCHANGED << envVars, readerVars >>
    /\ UNCHANGED templateVars
    /\ Observe

\* an Err arm that also publishes a count of 0
DynResolveErr_ZeroCount ==
    /\ revision = DynamicChannelRs
    /\ pc = "resolve"
    /\ ~sink_closed
    /\ ticks < MaxTicks
    /\ \E r \in resolve_domain :
         /\ ~r.ok
         /\ BeginTick(r)
         /\ SetStatus(dns_resolution_error(r.err))
    /\ SetCount(0)
    /\ pc' = "tick"
    /\ UNCHANGED << old_endpoints, new_endpoints, iter, key_events >>
    /\ UNCHANGED << envVars, readerVars >>
    /\ UNCHANGED templateVars
    /\ Observe

\* Err(e) => status DnsResolutionError, nothing else, wait for the next tick
DynResolveErr ==
    /\ revision = DynamicChannelRs
    /\ pc = "resolve"
    /\ ~sink_closed
    /\ ticks < MaxTicks
    /\ \E r \in resolve_domain :
         /\ ~r.ok
         /\ BeginTick(r)
         /\ SetStatus(dns_resolution_error(r.err))
    /\ pc' = "tick"
    /\ UNCHANGED << old_endpoints, new_endpoints, iter, endpoints_count,
                    count_version, key_events >>
    /\ UNCHANGED << envVars, readerVars >>
    /\ UNCHANGED templateVars
    /\ Observe

\* a first loop that sends the Removes of the tick before its Inserts
DynInsert_RemovesFirst ==
    /\ revision = DynamicChannelRs
    /\ pc = "insert"
    /\ iter # {}
    /\ LET pending == { k \in Difference(old_endpoints, new_endpoints) :
                           \A i \in 1 .. Len(sent) : sent[i].key # k }
       IN  IF pending # {}
           THEN /\ \E k \in pending : Send(RemoveEv(k, SendOk))
                /\ iter' = iter
           ELSE \E ip \in iter :
                   /\ Send(InsertEv(ip, SendOk))
                   /\ iter' = iter \ {ip}
    /\ UNCHANGED << pc, old_endpoints, new_endpoints, status, status_version,
                    endpoints_count, count_version >>
    /\ SameTick
    /\ UNCHANGED readerVars
    /\ UNCHANGED templateVars
    /\ Observe

\* let _ = add_endpoint(*new_ip).await;  the result is dropped
DynInsert ==
    /\ revision = DynamicChannelRs
    /\ pc = "insert"
    /\ \E ip \in iter :
         /\ Send(InsertEv(ip, SendOk))
         /\ iter' = iter \ {ip}
    /\ UNCHANGED << pc, old_endpoints, new_endpoints, status, status_version,
                    endpoints_count, count_version >>
    /\ SameTick
    /\ UNCHANGED readerVars
    /\ UNCHANGED templateVars
    /\ Observe

\* the first for loop is exhausted, the second starts
DynInsertsDone ==
    /\ revision = DynamicChannelRs
    /\ pc = "insert"
    /\ iter = {}
    /\ pc' = "remove"
    /\ iter' = Difference(old_endpoints, new_endpoints)
    /\ UNCHANGED << old_endpoints, new_endpoints, status, status_version,
                    endpoints_count, count_version, sent, key_events >>
    /\ SameTick
    /\ UNCHANGED << envVars, readerVars >>
    /\ UNCHANGED templateVars
    /\ Observe

\* a second loop that forgets the key without telling the sink
DynRemove_Skip ==
    /\ revision = DynamicChannelRs
    /\ pc = "remove"
    /\ \E ip \in iter : iter' = iter \ {ip}
    /\ UNCHANGED << pc, old_endpoints, new_endpoints, status, status_version,
                    endpoints_count, count_version, sent, key_events >>
    /\ SameTick
    /\ UNCHANGED << envVars, readerVars >>
    /\ UNCHANGED templateVars
    /\ Observe

\* let _ = sender.send(Change::Remove(*old_ip)).await;
DynRemove ==
    /\ revision = DynamicChannelRs
    /\ pc = "remove"
    /\ \E ip \in iter :
         /\ Send(RemoveEv(ip, SendOk))
         /\ iter' = iter \ {ip}
    /\ UNCHANGED << pc, old_endpoints, new_endpoints, status, status_version,
                    endpoints_count, count_version >>
    /\ SameTick
    /\ UNCHANGED readerVars
    /\ UNCHANGED templateVars
    /\ Observe

\* a publish that counts the sends of the tick instead of the known keys
DynPublish_CountsSent ==
    /\ revision = DynamicChannelRs
    /\ pc = "remove"
    /\ iter = {}
    /\ old_endpoints' = new_endpoints
    /\ SetCount(Len(sent))
    /\ pc' = "tick"
    /\ UNCHANGED << new_endpoints, iter, status, status_version, sent,
                    key_events >>
    /\ SameTick
    /\ UNCHANGED << envVars, readerVars >>
    /\ UNCHANGED templateVars
    /\ Observe

\* a publish that forgets old_endpoints = new_endpoints
DynPublish_NoAssign ==
    /\ revision = DynamicChannelRs
    /\ pc = "remove"
    /\ iter = {}
    /\ SetCount(Cardinality(new_endpoints))
    /\ pc' = "tick"
    /\ UNCHANGED << old_endpoints, new_endpoints, iter, status, status_version, sent,
                    key_events >>
    /\ SameTick
    /\ UNCHANGED << envVars, readerVars >>
    /\ UNCHANGED templateVars
    /\ Observe

\* a publish that takes the length before the assignment
DynPublish_OldLen ==
    /\ revision = DynamicChannelRs
    /\ pc = "remove"
    /\ iter = {}
    /\ old_endpoints' = new_endpoints
    /\ SetCount(Cardinality(old_endpoints))
    /\ pc' = "tick"
    /\ UNCHANGED << new_endpoints, iter, status, status_version, sent,
                    key_events >>
    /\ SameTick
    /\ UNCHANGED << envVars, readerVars >>
    /\ UNCHANGED templateVars
    /\ Observe

\* old_endpoints = new_endpoints; endpoints_count_setter.send(len)
DynPublish ==
    /\ revision = DynamicChannelRs
    /\ pc = "remove"
    /\ iter = {}
    /\ old_endpoints' = new_endpoints
    /\ SetCount(Cardinality(old_endpoints'))
    /\ pc' = "tick"
    /\ UNCHANGED << new_endpoints, iter, status, status_version, sent,
                    key_events >>
    /\ SameTick
    /\ UNCHANGED << envVars, readerVars >>
    /\ UNCHANGED templateVars
    /\ Observe

\* a tick that gives up after a failed resolution
DynTick_ExitOnError ==
    /\ revision = DynamicChannelRs
    /\ pc = "tick"
    /\ handle_alive
    /\ pc' = IF outcome.ok THEN "resolve" ELSE "done"
    /\ UNCHANGED << old_endpoints, new_endpoints, iter, status, status_version,
                    endpoints_count, count_version, sent, key_events >>
    /\ SameTick
    /\ UNCHANGED << envVars, readerVars >>
    /\ UNCHANGED templateVars
    /\ Observe

\* a timer that fires while the tick's changes are still being sent
DynTick_Early ==
    /\ revision = DynamicChannelRs
    /\ pc \in {"tick", "insert", "remove"}
    /\ handle_alive
    /\ pc' = "resolve"
    /\ iter' = {}
    /\ UNCHANGED << old_endpoints, new_endpoints, status, status_version,
                    endpoints_count, count_version, sent, key_events >>
    /\ SameTick
    /\ UNCHANGED << envVars, readerVars >>
    /\ UNCHANGED templateVars
    /\ Observe

\* interval.tick().await completes; a task whose abort was requested while
\* it waits here is never polled again
DynTick ==
    /\ revision = DynamicChannelRs
    /\ pc = "tick"
    /\ handle_alive
    /\ pc' = "resolve"
    /\ UNCHANGED << old_endpoints, new_endpoints, iter, status, status_version,
                    endpoints_count, count_version, sent, key_events >>
    /\ SameTick
    /\ UNCHANGED << envVars, readerVars >>
    /\ UNCHANGED templateVars
    /\ Observe

\* ---------------------------------------------------------- lib.rs, the loop
\* Ok(ip_addrs) => { status Ok; ip_addrs.collect() }
LibResolveOk ==
    /\ revision = LibRs
    /\ pc = "resolve"
    /\ ticks < MaxTicks
    /\ \E r \in resolve_domain :
         /\ r.ok
         /\ BeginTick(r)
         /\ SetStatus(StatusOk)
         /\ new_endpoints' = Collect(r.addrs)
         /\ iter' = Difference(new_endpoints', old_endpoints)
    /\ pc' = "insert"
    /\ UNCHANGED << old_endpoints, endpoints_count, count_version, key_events >>
    /\ UNCHANGED << envVars, readerVars >>
    /\ UNCHANGED templateVars
    /\ Observe

\* an Err arm that goes on with an empty set instead of old_endpoints.clone()
LibResolveErr_Empty ==
    /\ revision = LibRs
    /\ pc = "resolve"
    /\ ticks < MaxTicks
    /\ \E r \in resolve_domain :
         /\ ~r.ok
         /\ BeginTick(r)
         /\ SetStatus(dns_resolution_error(r.err))
    /\ new_endpoints' = {}
    /\ iter' = Difference(new_endpoints', old_endpoints)
    /\ pc' = "insert"
    /\ UNCHANGED << old_endpoints, endpoints_count, count_version, key_events >>
    /\ UNCHANGED << envVars, readerVars >>
    /\ UNCHANGED templateVars
    /\ Observe

\* Err(e) => { status DnsResolutionError; old_endpoints.clone() }
LibResolveErr ==
    /\ revision = LibRs
    /\ pc = "resolve"
    /\ ticks < MaxTicks
    /\ \E r \in resolve_domain :
         /\ ~r.ok
         /\ BeginTick(r)
         /\ SetStatus(dns_resolution_error(r.err))
    /\ new_endpoints' = old_endpoints
    /\ iter' = Difference(new_endpoints', old_endpoints)
    /\ pc' = "insert"
    /\ UNCHANGED << old_endpoints, endpoints_count, count_version, key_events >>
    /\ UNCHANGED << envVars, readerVars >>
    /\ UNCHANGED templateVars
    /\ Observe

\* a failed Insert that publishes Stopped but forgets to return
LibInsert_NoReturn ==
    /\ revision = LibRs
    /\ pc = "insert"
    /\ \E ip \in iter :
         /\ Send(InsertEv(ip, SendOk))
         /\ iter' = iter \ {ip}
    /\ IF SendOk
       THEN UNCHANGED << status, status_version >>
       ELSE SetStatus(StatusStopped)
    /\ UNCHANGED << pc, old_endpoints, new_endpoints, endpoints_count, count_version >>
    /\ SameTick
    /\ UNCHANGED readerVars
    /\ UNCHANGED templateVars
    /\ Observe

\* if add_endpoint(*new_ip).await.is_err() { status Stopped; return; }
LibInsert ==
    /\ revision = LibRs
    /\ pc = "insert"
    /\ \E ip \in iter :
         /\ Send(InsertEv(ip, SendOk))
         /\ iter' = iter \ {ip}
    /\ IF SendOk
       THEN UNCHANGED << pc, status, status_version >>
       ELSE SetStatus(StatusStopped) /\ pc' = "done"
    /\ UNCHANGED << old_endpoints, new_endpoints, endpoints_count, count_version >>
    /\ SameTick
    /\ UNCHANGED readerVars
    /\ UNCHANGED templateVars
    /\ Observe

LibInsertsDone ==
    /\ revision = LibRs
    /\ pc = "insert"
    /\ iter = {}
    /\ pc' = "remove"
    /\ iter' = Difference(old_endpoints, new_endpoints)
    /\ UNCHANGED << old_endpoints, new_endpoints, status, status_version,
                    endpoints_count, count_version, sent, key_events >>
    /\ SameTick
    /\ UNCHANGED << envVars, readerVars >>
    /\ UNCHANGED templateVars
    /\ Observe

\* if sender.send(Change::Remove(*old_ip)).await.is_err() { status Stopped; return; }
LibRemove ==
    /\ revision = LibRs
    /\ pc = "remove"
    /\ \E ip \in iter :
         /\ Send(RemoveEv(ip, SendOk))
         /\ iter' = iter \ {ip}
    /\ IF SendOk
       THEN UNCHANGED << pc, status, status_version >>
       ELSE SetStatus(StatusStopped) /\ pc' = "done"
    /\ UNCHANGED << old_endpoints, new_endpoints, endpoints_count, count_version >>
    /\ SameTick
    /\ UNCHANGED readerVars
    /\ UNCHANGED templateVars
    /\ Observe

\* the end of a tick without old_endpoints = new_endpoints
LibAssign_Skip ==
    /\ revision = LibRs
    /\ pc = "remove"
    /\ iter = {}
    /\ pc' = "tick"
    /\ UNCHANGED << old_endpoints, new_endpoints, iter, status, status_version,
                    endpoints_count, count_version, sent, key_events >>
    /\ SameTick
    /\ UNCHANGED << envVars, readerVars >>
    /\ UNCHANGED templateVars
    /\ Observe

\* old_endpoints = new_endpoints;
LibAssign ==
    /\ revision = LibRs
    /\ pc = "remove"
    /\ iter = {}
    /\ old_endpoints' = new_endpoints
    /\ pc' = "tick"
    /\ UNCHANGED << new_endpoints, iter, status, status_version,
                    endpoints_count, count_version, sent, key_events >>
    /\ SameTick
    /\ UNCHANGED << envVars, readerVars >>
    /\ UNCHANGED templateVars
    /\ Observe

\* interval.tick().await
LibTick ==
    /\ revision = LibRs
    /\ pc = "tick"
    /\ handle_alive
    /\ pc' = "resolve"
    /\ UNCHANGED << old_endpoints, new_endpoints, iter, status, status_version,
                    endpoints_count, count_version, sent, key_events >>
    /\ SameTick
    /\ UNCHANGED << envVars, readerVars >>
    /\ UNCHANGED templateVars
    /\ Observe


\* ------------------------------------------------------------ environment
\* the consumer of the balance channel drops its receiver
CloseSink ==
    /\ ~sink_closed
    /\ sink_closed' = TRUE
    /\ sink_full' = FALSE
    /\ UNCHANGED << revision, handle_alive >>
    /\ UNCHANGED << taskVars, readerVars >>
    /\ UNCHANGED templateVars
    /\ Observe

\* the consumer of the balance channel takes a change out of the full buffer
SinkDrains ==
    /\ sink_full
    /\ sink_full' = FALSE
    /\ UNCHANGED << revision, sink_closed, handle_alive >>
    /\ UNCHANGED << taskVars, readerVars >>
    /\ UNCHANGED templateVars
    /\ Observe

\* Drop for AutoBalancedChannel: self.background_task.abort()
Drop ==
    /\ handle_alive
    /\ handle_alive' = FALSE
    /\ UNCHANGED << revision, sink_closed, sink_full >>
    /\ UNCHANGED << taskVars, readerVars >>
    /\ UNCHANGED templateVars
    /\ Observe

\* an abort that only takes effect at the interval timer
Cancel_TimerOnly ==
    /\ ~handle_alive
    /\ pc = "tick"
    /\ pc' = "aborted"
    /\ UNCHANGED << old_endpoints, new_endpoints, iter, status, status_version,
                    endpoints_count, count_version, sent, key_events >>
    /\ SameTick
    /\ UNCHANGED << envVars, readerVars >>
    /\ UNCHANGED templateVars
    /\ Observe

\* the aborted task is dropped at the await it is suspended on
Cancel ==
    /\ ~handle_alive
    /\ \/ pc = "tick"
       \/ pc \in {"insert", "remove"} /\ iter # {}
    /\ pc' = "aborted"
    /\ UNCHANGED << old_endpoints, new_endpoints, iter, status, status_version,
                    endpoints_count, count_version, sent, key_events >>
    /\ SameTick
    /\ UNCHANGED << envVars, readerVars >>
    /\ UNCHANGED templateVars
    /\ Observe

\* ---------------------------------------------------------------- readers
\* what a call on the handle returned
StatusRet(st) == [call |-> "get_status", status |-> st, health |-> "None"]
HealthRet(h) == [call |-> "get_health", status |-> StatusOk, health |-> h]

\* a reader that hands out the value the register was created with
get_status_Initial ==
    /\ handle_alive
    /\ h_pc = "idle"
    /\ ret' = StatusRet(StatusOk)
    /\ ret' # ret
    /\ UNCHANGED << h_pc, h_count >>
    /\ UNCHANGED << taskVars, envVars >>
    /\ UNCHANGED templateVars
    /\ UNCHANGED h_seen

\* self.status_reader.borrow().to_owned()
get_status ==
    /\ handle_alive
    /\ h_pc = "idle"
    /\ ret' = StatusRet(status)
    /\ ret' # ret
    /\ UNCHANGED << h_pc, h_count >>
    /\ UNCHANGED << taskVars, envVars >>
    /\ UNCHANGED templateVars
    /\ UNCHANGED h_seen

\* a classifier with the two non-empty cases exchanged
HealthOf_Negated(count, st) ==
    IF count = 0 THEN "Broken"
    ELSE IF is_dns_resolution_error(st) THEN "Ok"
    ELSE "Undetermined"

\* a classifier that looks at the status before the count
HealthOf_StatusFirst(count, st) ==
    IF is_dns_resolution_error(st) THEN "Undetermined"
    ELSE IF count = 0 THEN "Broken"
    ELSE "Ok"

\* the health get_health() answers from the count and the status it has read
HealthOf(count, st) ==
    IF count = 0 THEN "Broken"
    ELSE IF is_dns_resolution_error(st) THEN "Undetermined"
    ELSE "Ok"

\* if *self.endpoints_count_reader.borrow() == 0 { Health::Broken }
get_health_count ==
    /\ revision = DynamicChannelRs
    /\ handle_alive
    /\ h_pc = "idle"
    /\ IF endpoints_count = 0
       THEN /\ ret' = HealthRet(HealthOf(endpoints_count, status))
            /\ ret' # ret
            /\ UNCHANGED << h_pc, h_count >>
       ELSE /\ h_pc' = "status"
            /\ h_count' = endpoints_count
            /\ ret' = NoRet
    /\ UNCHANGED << taskVars, envVars >>
    /\ UNCHANGED templateVars
    /\ h_seen' = IF endpoints_count = 0 THEN {} ELSE {Snapshot(endpoints_count, status)}

\* a reader that acknowledges the error it has seen by clearing the register
get_health_status_Ack ==
    /\ revision = DynamicChannelRs
    /\ h_pc = "status"
    /\ ret' = HealthRet(HealthOf(h_count, status))
    /\ h_pc' = "idle"
    /\ h_count' = 0
    /\ status' = StatusOk
    /\ UNCHANGED << pc, old_endpoints, new_endpoints, iter, status_version,
                    endpoints_count, count_version, sent, key_events >>
    /\ SameTick
    /\ UNCHANGED envVars
    /\ UNCHANGED templateVars
    /\ h_seen' = {}

\* else if self.status_reader.borrow().is_dns_resolution_error() { .. } else { .. }
get_health_status ==
    /\ revision = DynamicChannelRs
    /\ h_pc = "status"
    /\ ret' = HealthRet(HealthOf(h_count, status))
    /\ h_pc' = "idle"
    /\ h_count' = 0
    /\ UNCHANGED << taskVars, envVars >>
    /\ UNCHANGED templateVars
    /\ h_seen' = {}

\* -------------------------------------------- building the template
\* EndpointTemplate::new(url) is called
New ==
    /\ template = NotCalled
    /\ template' = new(url)
    /\ UNCHANGED << url, endpoint >>
    /\ UNCHANGED << taskVars, envVars, readerVars >>
    /\ Observe

\* template.timeout(dur)
Timeout ==
    /\ template.tag = "Ok"
    /\ pc = "unspawned"
    /\ template.timeout = NoDuration
    /\ \E dur \in Durations : template' = [template EXCEPT !.timeout = dur]
    /\ UNCHANGED << url, endpoint >>
    /\ UNCHANGED << taskVars, envVars, readerVars >>
    /\ Observe

\* template.build(ip)
Build ==
    /\ template.tag = "Ok"
    /\ pc = "unspawned"
    /\ \E ip \in IpAddr : endpoint' = build(template, ip)
    /\ UNCHANGED << url, template >>
    /\ UNCHANGED << taskVars, envVars, readerVars >>
    /\ Observe

\* AutoBalancedChannel::with_interval(endpoint_template, interval) takes the
\* template and spawns the loop
with_interval ==
    /\ template.tag = "Ok"
    /\ pc = "unspawned"
    /\ pc' = "resolve"
    /\ UNCHANGED << old_endpoints, new_endpoints, iter, status, status_version,
                    endpoints_count, count_version, sent, key_events >>
    /\ SameTick
    /\ UNCHANGED << templateVars, envVars, readerVars >>
    /\ Observe

\* ------------------------------------------------------------------- Next
Next ==
    \/ DynExitClosed
    \/ DynResolveOk
    \/ DynResolveErr
    \/ DynInsert
    \/ DynInsertsDone
    \/ DynRemove
    \/ DynPublish
    \/ DynTick
    \/ LibResolveOk
    \/ LibResolveErr
    \/ LibInsert
    \/ LibInsertsDone
    \/ LibRemove
    \/ LibAssign
    \/ LibTick
    \/ CloseSink
    \/ SinkDrains
    \/ Drop
    \/ Cancel
    \/ get_status
    \/ get_health_count
    \/ get_health_status

Spec == Init /\ [][Next]_vars

\* the steps of the background task; the runtime polls a task that can run
\* and the interval timer fires
Loop ==
    \/ DynExitClosed
    \/ DynResolveOk
    \/ DynResolveErr
    \/ DynInsert
    \/ DynInsertsDone
    \/ DynRemove
    \/ DynPublish
    \/ DynTick
    \/ LibResolveOk
    \/ LibResolveErr
    \/ LibInsert
    \/ LibInsertsDone
    \/ LibRemove
    \/ LibAssign
    \/ LibTick

\* the task and what can stop it, without the callers that only read
LoopNext ==
    \/ Loop
    \/ CloseSink
    \/ SinkDrains
    \/ Drop
    \/ Cancel

FairSpec == Init /\ [][LoopNext]_vars /\ WF_vars(Loop)

\* the runtime polls the task while it can run (resolve_domain is a plain call
\* that returns) and discards an aborted task that is suspended at an await;
\* nothing obliges the consumer of the sink to take changes
AbortSpec == Init /\ [][LoopNext]_vars /\ WF_vars(Loop) /\ WF_vars(Cancel)

\* the caller's steps up to the spawn: a Url, EndpointTemplate::new, setters
\* and builds on the template, with_interval
TemplateInit ==
    /\ revision \in Revisions
    /\ pc = "unspawned"
    /\ old_endpoints = {}
    /\ new_endpoints = {}
    /\ iter = {}
    /\ status = StatusOk
    /\ status_version = 0
    /\ endpoints_count = 0
    /\ count_version = 0
    /\ sink_closed = FALSE
    /\ sink_full = FALSE
    /\ url \in Urls
    /\ template = NotCalled
    /\ endpoint = NoEndpoint
    /\ sent = <<>>
    /\ key_events = [k \in IpAddr |-> <<>>]
    /\ handle_alive = TRUE
    /\ ticks = 0
    /\ closed_calls = 0
    /\ outcome = NoOutcome
    /\ prev_resolved = [ok |-> FALSE, set |-> {}]
    /\ known_before = {}
    /\ h_pc = "idle"
    /\ h_count = 0
    /\ h_seen = {}
    /\ ret = NoRet

TemplateNext ==
    \/ New
    \/ Timeout
    \/ Build
    \/ with_interval

TemplateSpec == TemplateInit /\ [][TemplateNext]_vars


\* ------------------------------------------------- vocabulary of the claims
\* the sends of the current tick, in order
TickEvents == sent

\* the set the current tick resolved to
Resolved == outcome.set
PrevResolved == prev_resolved.set

TickSucceeded == ticks > 0 /\ outcome.ok
TickFailed == ticks > 0 /\ ~outcome.ok

\* the task has finished the work of a tick and waits for the next one
AtTickEnd == pc = "tick"

\* how often the current tick sent op for key k
Sent(op, k) == Cardinality({ i \in 1 .. Len(TickEvents) :
                               TickEvents[i].op = op /\ TickEvents[i].key = k })

SendFailed == \E i \in 1 .. Len(sent) : ~sent[i].ok

\* ----------------------------------------------------------------- claims
\* C1: at the end of each tick old_endpoints is the resolved set if the
\* tick's resolution succeeded and its value before the tick if it failed.
C1_KnownSetAfterTick ==
    AtTickEnd =>
        old_endpoints = IF outcome.ok THEN Resolved ELSE known_before

C1_Witness ==
    /\ AtTickEnd
    /\ TickFailed
    /\ prev_resolved.ok
    /\ old_endpoints # {}

\* C2: a tick that resolved to S against the known set K sends one Insert
\* for each key of S \ K, one Remove for each key of K \ S and nothing else;
\* an address returned several times counts once.
C2_ExactDiff ==
    TickSucceeded =>
        /\ \A i \in 1 .. Len(TickEvents) :
             \/ TickEvents[i].op = "Insert" /\ TickEvents[i].key \in Resolved \ known_before
             \/ TickEvents[i].op = "Remove" /\ TickEvents[i].key \in known_before \ Resolved
        /\ \A k \in IpAddr : Sent("Insert", k) <= 1 /\ Sent("Remove", k) <= 1
        /\ AtTickEnd =>
             /\ \A k \in Resolved \ known_before : Sent("Insert", k) = 1
             /\ \A k \in known_before \ Resolved : Sent("Remove", k) = 1
             /\ \A k \in Resolved \cap known_before :
                  Sent("Insert", k) = 0 /\ Sent("Remove", k) = 0

C2_Witness ==
    /\ AtTickEnd
    /\ TickSucceeded
    /\ Resolved \cap known_before # {}
    /\ known_before \ Resolved # {}
    /\ outcome.len > Cardinality(Resolved)
    /\ Len(TickEvents) = 1

\* C3: every step of a tick whose resolution failed, the resolution itself
\* included, leaves old_endpoints alone, sends nothing to the sink and does
\* not write the endpoint-count register.
C3_FailedTickFrame ==
    [][ (ticks' > 0 /\ ~outcome'.ok) =>
            /\ old_endpoints' = old_endpoints
            /\ key_events' = key_events
            /\ sent' = <<>>
            /\ endpoints_count' = endpoints_count
            /\ count_version' = count_version ]_vars

C3_Witness ==
    /\ AtTickEnd
    /\ TickFailed
    /\ is_dns_resolution_error(status)
    /\ endpoints_count > 0
    /\ old_endpoints # {}
    /\ \E k \in IpAddr : key_events[k] # <<>>

\* C4: in the sequence of events sent for one key no two Insert events
\* follow each other without a Remove between them.
C4_NoDoubleInsert ==
    \A k \in IpAddr :
        \A i \in 1 .. (Len(key_events[k]) - 1) :
            ~(key_events[k][i] = "Insert" /\ key_events[k][i + 1] = "Insert")

C4_Witness ==
    \E k \in IpAddr :
        /\ key_events[k] = << "Insert", "Remove", "Insert" >>
        /\ ~sink_closed

\* C5: when two consecutive ticks both resolve successfully to the same
\* set, the second of them sends no Insert and no Remove.
C5_Idempotent ==
    ( /\ ticks >= 2
      /\ prev_resolved.ok
      /\ outcome.ok
      /\ PrevResolved = Resolved )
    => TickEvents = <<>>

C5_Witness ==
    /\ AtTickEnd
    /\ ticks >= 2
    /\ prev_resolved.ok
    /\ outcome.ok
    /\ PrevResolved = Resolved
    /\ Resolved # {}
    /\ ~sink_closed


\* C6: once a send to the sink has failed the loop has published Stopped
\* and has returned, and from then on it makes no resolver call and writes
\* no register.
C6_StoppedOnClosedSink ==
    /\ [](SendFailed => (status = StatusStopped /\ pc = "done"))
    /\ [][ SendFailed =>
              /\ ticks' = ticks
              /\ status_version' = status_version
              /\ count_version' = count_version ]_vars

\* C7: the status register starts at Ok; once it holds Stopped it keeps
\* that value and is never written again.
C7_StoppedTerminal ==
    /\ status = StatusOk
    /\ [][ status = StatusStopped =>
              /\ status' = StatusStopped
              /\ status_version' = status_version ]_vars

C7_Witness ==
    /\ status = StatusStopped
    /\ pc = "done"
    /\ SendFailed

\* a step in which a get_health() call returns
HealthReturns ==
    \/ h_pc = "status" /\ h_pc' = "idle"
    \/ h_pc = "idle" /\ h_pc' = "idle" /\ ret' # ret /\ ret'.call = "get_health"

\* C8: get_health() answers Broken when the count it read is 0, whatever
\* the status; Undetermined when the count is positive and the status is a
\* resolution error; Ok when the count is positive and the status is Ok.
C8_HealthFormula ==
    [][ HealthReturns =>
          LET count == IF h_pc = "status" THEN h_count ELSE endpoints_count
          IN  /\ ret'.call = "get_health"
              /\ count = 0 => ret'.health = "Broken"
              /\ (count > 0 /\ status.tag = "DnsResolutionError")
                    => ret'.health = "Undetermined"
              /\ (count > 0 /\ status = StatusOk) => ret'.health = "Ok" ]_vars

C8_Witness ==
    /\ ret = HealthRet("Undetermined")
    /\ h_pc = "idle"
    /\ endpoints_count > 0
    /\ status.tag = "DnsResolutionError"

\* C9: a failed resolution never ends the loop: while the sink is open and
\* the handle alive the task has not returned, the next resolver call
\* follows, and a successful resolution after a failed one is applied.
C9_FailureNeverExits ==
    /\ []((TickFailed /\ ~sink_closed /\ handle_alive)
             => pc \notin {"done", "aborted"})
    /\ \A n \in 1 .. (MaxTicks - 1) :
          (ticks = n /\ TickFailed /\ ~sink_closed /\ handle_alive)
             ~> (ticks = n + 1 \/ sink_closed \/ ~handle_alive)
    /\ []((AtTickEnd /\ ticks >= 2 /\ ~prev_resolved.ok /\ outcome.ok)
             => /\ status = StatusOk
                /\ old_endpoints = Resolved
                /\ \A k \in Resolved \ known_before : Sent("Insert", k) = 1
                /\ \A k \in known_before \ Resolved : Sent("Remove", k) = 1)

C9_Witness ==
    /\ AtTickEnd
    /\ ticks >= 2
    /\ ~prev_resolved.ok
    /\ outcome.ok
    /\ Resolved \ known_before # {}
    /\ status = StatusOk
    /\ ~sink_closed
    /\ handle_alive

C12_NoEndpointsStatus ==
    (AtTickEnd /\ TickSucceeded /\ Resolved = {}) => status.tag = "NoEndpoints"

\* the tick that is running resolved, the one before failed, and the set is
\* the one known before the failure
RecoveredSameSet ==
    /\ ticks >= 2
    /\ ~prev_resolved.ok
    /\ outcome.ok
    /\ outcome.set = known_before

\* C13: a failed tick followed by a tick that resolves to the set known
\* before the failure: the status goes from Ok to DnsResolutionError and
\* back to Ok, the published count keeps its value and neither tick sends
\* an event.
C13_FailThenSameSet ==
    /\ [][ (ticks' = ticks + 1 /\ ~outcome'.ok /\ prev_resolved'.ok) =>
               /\ status = StatusOk
               /\ status'.tag = "DnsResolutionError" ]_vars
    /\ [][ (ticks' > 0 /\ ~outcome'.ok) =>
               /\ endpoints_count' = endpoints_count
               /\ key_events' = key_events
               /\ sent' = <<>> ]_vars
    /\ [][ (ticks' = ticks + 1 /\ RecoveredSameSet') =>
               /\ status.tag = "DnsResolutionError"
               /\ status' = StatusOk ]_vars
    /\ [][ RecoveredSameSet' =>
               /\ endpoints_count' = endpoints_count
               /\ key_events' = key_events
               /\ sent' = <<>>
               /\ status' = StatusOk ]_vars

C13_Witness ==
    /\ AtTickEnd
    /\ ticks >= 3
    /\ RecoveredSameSet
    /\ Resolved # {}
    /\ revision = DynamicChannelRs
    /\ status = StatusOk
    /\ endpoints_count = Cardinality(Resolved)
    /\ count_version >= 2

\* C14: the count register is only written in a tick whose status write has
\* been made and was Ok, so no count is published while the status shows a
\* resolution error.
C14_StatusBeforeCount ==
    [][ count_version' # count_version =>
           /\ outcome.ok
           /\ status_version = ticks
           /\ status = StatusOk
           /\ status' = StatusOk ]_vars

C14_Witness ==
    /\ AtTickEnd
    /\ revision = DynamicChannelRs
    /\ ticks >= 2
    /\ ~prev_resolved.ok
    /\ outcome.ok
    /\ count_version >= 1
    /\ endpoints_count > 0

\* the changes the current tick owes the sink: the difference between its
\* resolver result and the set known when it began, nothing after a failure
ToInsert == IF outcome.ok THEN Difference(outcome.set, known_before) ELSE {}
ToRemove == IF outcome.ok THEN Difference(known_before, outcome.set) ELSE {}

\* C15: the events of a tick all derive from that tick's single resolver
\* result, they are sent one at a time, each with the sink's answer to it, and
\* the resolver call of the next tick starts only after every Insert and
\* Remove of the tick has been sent.
C15_OneResultPerTick ==
    /\ [][ ticks' = ticks + 1 =>
              /\ pc = "resolve"
              /\ iter = {}
              /\ sent' = << >>
              /\ \A k \in ToInsert : Sent("Insert", k) = 1
              /\ \A k \in ToRemove : Sent("Remove", k) = 1 ]_vars
    /\ [][ (sent' # sent /\ ticks' = ticks) =>
              /\ outcome' = outcome
              /\ known_before' = known_before
              /\ \E ev \in [op : {"Insert", "Remove"}, key : IpAddr, ok : BOOLEAN] :
                    /\ sent' = Append(sent, ev)
                    /\ ev.ok = ~sink_closed
                    /\ ev.op = "Insert" => ev.key \in ToInsert
                    /\ ev.op = "Remove" => ev.key \in ToRemove ]_vars

\* a third tick has begun after a tick that sent an Insert and a Remove
C15_Witness ==
    /\ ticks = 3
    /\ pc = "insert"
    /\ prev_resolved.ok
    /\ \E j, k \in IpAddr :
          /\ j # k
          /\ key_events[j] = << "Insert", "Remove" >>
          /\ key_events[k] = << "Insert" >>
          /\ prev_resolved.set = {k}

\* C16: once the handle has been dropped the background task calls the
\* resolver no more, sends no further event and writes no register, whatever
\* point of a tick it had reached when the drop happened.
C16_ImmediateCancel ==
    [][ ~handle_alive =>
           /\ ticks' = ticks
           /\ sent' = sent
           /\ key_events' = key_events
           /\ status_version' = status_version
           /\ count_version' = count_version ]_vars

\* the task has returned or has been discarded by the runtime
Terminated == pc \in {"done", "aborted"}

\* the bound on resolver calls is used up
TicksExhausted == pc = "resolve" /\ ticks = MaxTicks

C18_StatusReadIsLatest ==
    [][ (ret' # ret /\ ret'.call = "get_status") =>
           /\ ret' = StatusRet(status)
           /\ UNCHANGED << status, status_version >>
           /\ status_version = 0 => ret'.status = StatusOk ]_vars

\* a read returned the error written by the second tick over the first's Ok
C18_Witness ==
    /\ ret.call = "get_status"
    /\ ret = StatusRet(status)
    /\ is_dns_resolution_error(ret.status)
    /\ ticks = 2
    /\ prev_resolved.ok
    /\ status_version = 2

\* C19: EndpointTemplate::new fails with HostMissing for a Url without host,
\* also when that Url cannot be a base, and with AlreadyIpAddress for an IPv4
\* or IPv6 literal host; after either no template exists and no loop is ever
\* spawned; a Url with a domain host that converts to a Uri gives a template.
C19_ConstructionErrors ==
    /\ [][ template' # template /\ template = NotCalled =>
              /\ url.host.kind = "None" =>
                    template' = TemplateErr("HostMissing")
              /\ url.host.kind \in {"Ipv4", "Ipv6"} =>
                    template' = TemplateErr("AlreadyIpAddress")
              /\ (url.host.kind = "Domain" /\ ~Uri_from_str(url).is_err) =>
                    template' = TemplateOk(url) ]_vars
    /\ [][ template.tag = "Err" => template' = template /\ pc' = pc ]_vars
    /\ [](template.tag # "Ok" => pc = "unspawned" /\ endpoint = NoEndpoint)

\* the constructor refused mailto:admin@example.com, which has no host and
\* cannot be a base
C19_Witness ==
    /\ url.host.kind = "None"
    /\ url.cannot_be_a_base
    /\ template = TemplateErr("HostMissing")

\* C20: for every template that passed construction and every address,
\* build(ip) does not fail, leaves the template unchanged and returns an
\* endpoint whose Uri has ip as host (in brackets for IPv6) and the scheme,
\* port and path of the template's Url; builds with the same ip are equal.
C20_BuildCannotFail ==
    [][ endpoint' # endpoint =>
           /\ template' = template
           /\ endpoint'.tag = "Endpoint"
           /\ endpoint' = build(template, endpoint'.ip)
           /\ endpoint'.uri =
                 [scheme |-> template.url.scheme,
                  authority |-> IpHost(endpoint'.ip).text \o template.url.port,
                  path |-> template.url.path,
                  pad |-> template.url.pad] ]_vars

\* the keys the sink holds after applying every event sent to it in order:
\* Insert adds the key, Remove deletes it
Installed ==
    { k \in IpAddr : /\ key_events[k] # << >>
                     /\ key_events[k][Len(key_events[k])] = "Insert" }

\* C22: at every tick boundary of a running loop with an open sink the set
\* obtained by applying all events sent so far equals the known-endpoint set,
\* which is the last successfully resolved set (empty when no resolution has
\* succeeded in the ticks remembered).
C22_NoLeakNoDrop ==
    (AtTickEnd /\ ~sink_closed) =>
        /\ Installed = old_endpoints
        /\ outcome.ok => old_endpoints = Resolved
        /\ (~outcome.ok /\ prev_resolved.ok) => old_endpoints = PrevResolved
        /\ (~outcome.ok /\ ~prev_resolved.ok) => old_endpoints = known_before
        /\ (~outcome.ok /\ ~prev_resolved.ok /\ ticks <= 2) => old_endpoints = {}

\* a third tick replaced one address by another after a failed second tick
C22_Witness ==
    /\ AtTickEnd
    /\ ~sink_closed
    /\ ticks = 3
    /\ outcome.ok
    /\ ~prev_resolved.ok
    /\ \E j, k \in IpAddr :
          /\ j # k
          /\ key_events[j] = << "Insert", "Remove" >>
          /\ key_events[k] = << "Insert" >>
          /\ old_endpoints = {k}

\* C23: get_health returns Broken exactly when no endpoint is installed in
\* the sink, and Ok or Undetermined only while some inserted endpoint has not
\* been removed.
C23_BrokenIffNothingInstalled ==
    [][ (HealthReturns /\ ~sink_closed) =>
           (ret'.health = "Broken" <=> Installed = {}) ]_vars

\* no resolution has succeeded in any tick so far
NoSuccessYet ==
    \/ ticks = 0
    \/ ticks = 1 /\ ~outcome.ok
    \/ ticks = 2 /\ ~outcome.ok /\ ~prev_resolved.ok

\* C24: the endpoint-count register holds the size of the known-endpoint
\* set: at the end of every tick the published count is the number of
\* distinct keys of old_endpoints, and it is 0 before the first successful
\* tick.
C24_CountIsKnownSetSize ==
    revision = DynamicChannelRs =>
        /\ AtTickEnd => endpoints_count = Cardinality(old_endpoints)
        /\ NoSuccessYet => endpoints_count = 0 /\ count_version = 0
        /\ count_version = 0 => endpoints_count = 0

\* two ticks have published, the second a smaller known set than the first
C24_Witness ==
    /\ revision = DynamicChannelRs
    /\ AtTickEnd
    /\ count_version = 2
    /\ Cardinality(known_before) = 2
    /\ Cardinality(old_endpoints) = 1
    /\ endpoints_count = 1

\* a step of get_status or get_health
ReaderStep == ret' # ret \/ h_pc' # h_pc

\* C25: get_status and get_health change nothing: both registers, the known
\* set, the task and the sink are as before a read; and they never hold the
\* loop up: while a get_health is between its two reads the loop can make its
\* next resolver call, register write and tick, and a read can complete
\* wherever the loop stands, also when it waits for the sink or the timer.
C25_ReadsDoNotInterfere ==
    /\ [][ ReaderStep => UNCHANGED << taskVars, envVars >> ]_vars
    /\ []((h_pc = "status" /\ pc = "remove" /\ iter = {})
              => ENABLED DynPublish)
    /\ []((h_pc = "status" /\ pc = "resolve" /\ ticks < MaxTicks /\ ~sink_closed)
              => ENABLED DynResolveOk /\ ENABLED DynResolveErr)
    /\ []((h_pc = "status" /\ pc = "tick" /\ handle_alive) => ENABLED DynTick)
    /\ [](h_pc = "status" => ENABLED get_health_status)
    /\ []((handle_alive /\ h_pc = "idle" /\ ret # StatusRet(status))
              => ENABLED get_status)

\* a get_health is between its two reads while the loop waits for a free
\* slot in the sink
C25_Witness ==
    /\ h_pc = "status"
    /\ pc \in {"insert", "remove"}
    /\ iter # {}
    /\ sink_full
    /\ ~sink_closed

\* the tick in progress is the first one whose resolution succeeded
FirstSuccess ==
    /\ outcome.ok
    /\ ticks = 1 \/ (ticks = 2 /\ ~prev_resolved.ok)

\* C26: before the first tick has published anything a fresh handle shows
\* status Ok and count 0, so get_health answers Broken; the known set is
\* empty, so the first successful tick sends an Insert for every resolved
\* address and no Remove.
C26_FreshHandle ==
    /\ [](ticks = 0 =>
             /\ status = StatusOk
             /\ status_version = 0
             /\ endpoints_count = 0
             /\ count_version = 0
             /\ old_endpoints = {}
             /\ HealthOf(endpoints_count, status) = "Broken")
    /\ [][ (ticks = 0 /\ ret' # ret) =>
              ret' \in {StatusRet(StatusOk), HealthRet("Broken")} ]_vars
    /\ []((AtTickEnd /\ FirstSuccess) =>
             /\ known_before = {}
             /\ \A k \in Resolved : Sent("Insert", k) = 1
             /\ \A k \in IpAddr : Sent("Remove", k) = 0)

\* get_health answered Broken before the first resolver call
C26_Witness ==
    /\ ticks = 0
    /\ revision = DynamicChannelRs
    /\ ret = HealthRet("Broken")

\* the health formula applied to a pair the registers held together
HealthOfSnapshot(p) ==
    IF p.empty THEN "Broken"
    ELSE IF p.error THEN "Undetermined"
    ELSE "Ok"

\* the pairs the registers held together during the get_health that returns
SeenDuringCall ==
    IF h_pc = "idle" THEN {Snapshot(endpoints_count, status)} ELSE h_seen

\* C27: get_health is atomic with respect to the loop: each value it returns
\* is the health formula applied to a (count, status) pair the two registers
\* held together at one instant during the call.
C27_HealthAtomic ==
    [][ HealthReturns =>
           \E p \in SeenDuringCall : ret'.health = HealthOfSnapshot(p) ]_vars

\* C27 as amended: the value get_health returns is the formula applied to the
\* count of its first read and the status of its second, and it belongs to a
\* pair the registers held together during the call unless the count
\* register holds 0 at the second read.
C27_HealthAtomicUnlessEmptied ==
    [][ HealthReturns =>
           /\ ret'.health =
                 HealthOfSnapshot(
                     IF h_pc = "idle" THEN Snapshot(endpoints_count, status)
                     ELSE Snapshot(h_count, status))
           /\ (h_pc = "idle" \/ endpoints_count > 0) =>
                 \E p \in SeenDuringCall : ret'.health = HealthOfSnapshot(p) ]_vars

\* a get_health that read its count before the loop published another one
\* and its status after a later write has returned
C27_Witness ==
    /\ ret.call = "get_health"
    /\ ret.health = "Undetermined"
    /\ count_version >= 2
    /\ endpoints_count > 0
    /\ ticks = 3

\* resolver calls a loop may still make once its sink is closed: the one
\* that passed the sender.is_closed() check just before
ClosedCallBound == 1

\* C28: once the sink has been closed by its consumer the loop eventually
\* exits, also when the resolver keeps returning the known set so that no
\* event is ever sent, and it makes no more than a bounded number of resolver
\* calls after the closure.
C28_ExitsAfterClose ==
    /\ [](closed_calls <= ClosedCallBound)
    /\ (sink_closed /\ handle_alive)
          ~> (Terminated \/ ~handle_alive \/ TicksExhausted)

\* C29: within one tick every Insert is sent before any Remove, so a tick
\* that replaces the known addresses by a non-empty set never leaves the sink
\* without an installed endpoint.
C29_InsertsBeforeRemoves ==
    /\ \A i, j \in 1 .. Len(sent) :
          (i < j /\ sent[i].op = "Remove") => sent[j].op = "Remove"
    /\ (TickSucceeded /\ ~sink_closed /\ known_before # {} /\ Resolved # {})
          => Installed # {}

\* the second loop of a tick that replaces one address by another has begun:
\* both are installed
C29_Witness ==
    /\ TickSucceeded
    /\ ~sink_closed
    /\ pc = "remove"
    /\ \E j, k \in IpAddr :
          /\ j # k
          /\ known_before = {j}
          /\ Resolved = {k}
          /\ iter = {j}
          /\ Installed = {j, k}

====
